---- MODULE Spec2Model ----
(***************************************************************************)
(* Capture orchestration of the photo booth (src/cam.py): the Camera       *)
(* controller with its two locks (Camera.settings_lock, PixelArray.lock),  *)
(* the recalibration threading.Timer chain, the idle animation thread and  *)
(* the main control loop with its try/finally shutdown (Spec, FairSpec);   *)
(* the parser of the raspistill diagnostics on its own (ParseSpec); the    *)
(* image viewer with its display timeout (src/gui.py, GuiSpec).            *)
(***************************************************************************)
EXTENDS Integers, Sequences, FiniteSets, TLC

(***************************************************************************)
(* Bounds of the model.                                                    *)
(***************************************************************************)
\* Simulated clock stops here (seconds).
MaxClock == 1500
\* Number of threading.Timer objects that may be created.
MaxTimers == 4
\* Longest diagnostic stream (number of matched or unmatched lines).
MaxLines == 2
\* Number of root.after ids the image viewer may hand out.
MaxTasks == 3
\* Longest diagnostic stream given to the parser on its own.
MaxProbeLines == 3

(***************************************************************************)
(* Program constants.                                                      *)
(***************************************************************************)
SETTINGS_UPDATE_INTERVAL == 10 * 60
\* range(3) of the countdown in PixelArray.flash_on
CountdownCycles == 3
\* Granularity of the simulated clock: time passes in half intervals.
Quantum == SETTINGS_UPDATE_INTERVAL \div 2
\* gui.py, milliseconds
PHOTO_DISPLAY_TIMEOUT == 5 * 60 * 1000
\* The same in seconds, the unit of the simulated clock.
DisplayTimeout == PHOTO_DISPLAY_TIMEOUT \div 1000
\* In the image viewer time passes in half timeouts.
ViewerQuantum == DisplayTimeout \div 2

(***************************************************************************)
(* Threads.                                                                *)
(***************************************************************************)
MainThread == <<"main", 0>>
AnimThread == <<"anim", 0>>
TimerThread(n) == <<"timer", n>>
NoThread == <<"none", 0>>
TimerIds == 1..MaxTimers
TimerThreads == {TimerThread(n) : n \in TimerIds}
\* Threads that may run Camera.update_settings.
CameraThreads == {MainThread} \cup TimerThreads
Threads == CameraThreads \cup {AnimThread}

(***************************************************************************)
(* Values: floats are reduced fractions <<n, d>>, None is <<0, 0>>.        *)
(***************************************************************************)
None == <<0, 0>>
NoTime == 0 - 1

RECURSIVE GCD(_, _)
GCD(a, b) == IF b = 0 THEN a ELSE GCD(b, a % b)

\* float(n) / float(d) for d # 0
Float(n, d) == <<n \div GCD(n, d), d \div GCD(n, d)>>

\* The attribute self.settings before the first assignment.
NoSettings ==
    [analog_gain |-> None, digital_gain |-> None,
     shutter_speed |-> None, awb_gains |-> <<None, None>>]

(***************************************************************************)
(* The diagnostic stream of raspistill --settings: the occurrences of the  *)
(* two patterns, in order, each with its captured groups.                  *)
(*   exposure: <<exposure, analog_gain_n, analog_gain_d,                   *)
(*               digital_gain_n, digital_gain_d>>                          *)
(*   awb:      <<awb_r_n, awb_r_d, awb_b_n, awb_b_d>>                      *)
(***************************************************************************)
ExposureLine(e, an, ad, dn, dd) == [kind |-> "exposure", groups |-> <<e, an, ad, dn, dd>>]
AwbLine(rn, rd, bn, bd) == [kind |-> "awb", groups |-> <<rn, rd, bn, bd>>]
OtherLine == [kind |-> "other", groups |-> <<>>]
NoMatch == [kind |-> "IndexError", groups |-> <<>>]

DiagnosticLines ==
    { ExposureLine(1200, 100, 50, 10, 10),
      ExposureLine(1500, 120, 60, 20, 10),
      ExposureLine(1500, 120, 0, 20, 10),
      AwbLine(3, 2, 5, 4),
      AwbLine(2, 1, 7, 4),
      OtherLine }

Streams == UNION {[1..n -> DiagnosticLines] : n \in 0..MaxLines}
ProbeStreams == UNION {[1..n -> DiagnosticLines] : n \in 0..MaxProbeLines}

Max(S) == CHOOSE x \in S : \A y \in S : y <= x

\* Mutant: list(matches)[0], the first occurrence.
find_first_match(pattern, stream) ==
    LET matches == {k \in 1..Len(stream) : stream[k].kind = pattern}
    IN  IF matches = {} THEN NoMatch
        ELSE stream[CHOOSE k \in matches : \A j \in matches : k <= j]

\* list(re.finditer(pattern, string))[-1]: the last occurrence; an empty
\* list raises IndexError (the iterator is always truthy, so None is never
\* returned).
find_last_match(pattern, stream) ==
    LET matches == {k \in 1..Len(stream) : stream[k].kind = pattern}
    IN  IF matches = {} THEN NoMatch ELSE stream[Max(matches)]

\* Mutant: a missing AWB line is tolerated and its gains are left unset.
update_capture_settings_partial(stream) ==
    LET m1 == find_last_match("exposure", stream)
        m2 == find_last_match("awb", stream)
    IN  IF m1 = NoMatch \/ m1.groups[3] = 0 \/ m1.groups[5] = 0
        THEN [raised |-> TRUE, settings |-> NoSettings]
        ELSE [raised |-> FALSE,
              settings |->
                [analog_gain |-> Float(m1.groups[2], m1.groups[3]),
                 digital_gain |-> Float(m1.groups[4], m1.groups[5]),
                 shutter_speed |-> Float(m1.groups[1], 1),
                 awb_gains |->
                    IF m2 = NoMatch \/ m2.groups[2] = 0 \/ m2.groups[4] = 0
                    THEN <<None, None>>
                    ELSE <<Float(m2.groups[1], m2.groups[2]),
                           Float(m2.groups[3], m2.groups[4])>>]]

\* RaspiStillCamera.update_capture_settings on the tool's stderr: the
\* settings, or an exception (IndexError of find_last_match,
\* ZeroDivisionError of a zero denominator) before any dict is built.
update_capture_settings(stream) ==
    LET m1 == find_last_match("exposure", stream)
        m2 == find_last_match("awb", stream)
    IN  IF m1 = NoMatch \/ m2 = NoMatch
        THEN [raised |-> TRUE, settings |-> NoSettings]
        ELSE IF m1.groups[3] = 0 \/ m1.groups[5] = 0
                \/ m2.groups[2] = 0 \/ m2.groups[4] = 0
        THEN [raised |-> TRUE, settings |-> NoSettings]
        ELSE [raised |-> FALSE,
              settings |->
                [analog_gain |-> Float(m1.groups[2], m1.groups[3]),
                 digital_gain |-> Float(m1.groups[4], m1.groups[5]),
                 shutter_speed |-> Float(m1.groups[1], 1),
                 awb_gains |-> <<Float(m2.groups[1], m2.groups[2]),
                                 Float(m2.groups[3], m2.groups[4])>>]]

\* A settings value with every field of the external-tool backend set.
Complete(s) ==
    /\ s.analog_gain # None /\ s.digital_gain # None
    /\ s.shutter_speed # None
    /\ s.awb_gains[1] # None /\ s.awb_gains[2] # None

(***************************************************************************)
(* State.                                                                  *)
(***************************************************************************)
VARIABLES
    pc,                     \* position of every thread
    settings_lock,          \* holder of Camera.settings_lock
    lock,                   \* holder of PixelArray.lock
    settings,               \* Camera.settings
    result,                 \* per thread: value returned by update_capture_settings
    settings_update_timer,  \* Camera.settings_update_timer (0: not yet set)
    armedAt,                \* per Timer: clock at its start()
    clock,                  \* simulated clock, seconds
    brightness, fill,       \* PixelArray.pixels
    i,                      \* countdown loop variable of flash_on
    blinks,                 \* history: countdown cycles shown since the lock was taken
    display,                \* power state of the screen
    running,                \* IdleAnimation.running
    constructed,            \* camera and idle_animation are bound in __main__
    photo,                  \* settings the last written photo was taken with
    calFailed,              \* history: a calibration has raised
    capFailed,              \* history: a capture has raised
    destroyed,              \* history: Camera.destroy has returned
    inFlight,               \* history: the calibration holding the lock at destroy
    lastStart,              \* history: clock at the last update_settings start
    gap,                    \* history: last start minus the start before it
    waited,                 \* history: last timer fire minus that timer's start()
    storedAt,               \* history: clock at the last assignment of Camera.settings
    diagnostics,            \* the diagnostic stream given to the parser
    parsed,                 \* what update_capture_settings made of it
    gui_pc,                 \* gui.py: position of the observer and the Tk thread
    display_off_task,       \* gui.py: the global display_off_task (0: None)
    due,                    \* gui.py: per root.after id, when it fires (NoTime: not pending)
    allocated,              \* gui.py: number of root.after ids handed out
    lastShown,              \* history: clock at the last display_on of handle_event
    offDelay                \* history: last power-off by display_off minus lastShown

locks == <<settings_lock, lock>>
cam == <<settings, result, photo>>
timers == <<settings_update_timer, armedAt>>
pixels == <<brightness, fill, i, blinks>>
anim == <<running>>
hist == <<calFailed, capFailed, destroyed, inFlight>>
times == <<lastStart, gap, waited, storedAt>>
parse == <<diagnostics, parsed>>
viewer == <<gui_pc, display_off_task, due, allocated, lastShown, offDelay>>
\* State of the parser on its own and of the image viewer, which the
\* threads of cam.py never touch.
aside == <<parse, viewer>>
vars == <<pc, locks, cam, timers, clock, display, aside, pixels, anim, constructed, hist, times>>

\* gui.py: the watchdog observer thread and the Tk main loop.
GuiThreads == {"observer", "tk"}
TaskIds == 1..MaxTasks

\* parsed before update_capture_settings has been applied.
NotParsed == [raised |-> FALSE, settings |-> NoSettings]

\* cam.py at the start of __main__.
Boot ==
    /\ pc = [t \in Threads |->
               IF t = MainThread THEN "construct"
               ELSE IF t = AnimThread THEN "unstarted" ELSE "unborn"]
    /\ settings_lock = NoThread
    /\ lock = NoThread
    /\ settings = NoSettings
    /\ result = [t \in CameraThreads |-> NoSettings]
    /\ settings_update_timer = 0
    /\ armedAt = [n \in TimerIds |-> NoTime]
    /\ clock = 0
    /\ brightness = "idle"
    /\ fill = "black"
    /\ i = 0
    /\ blinks = 0
    /\ display = "off"
    /\ running = FALSE
    /\ constructed = FALSE
    /\ photo = NoSettings
    /\ calFailed = FALSE
    /\ capFailed = FALSE
    /\ destroyed = FALSE
    /\ inFlight = NoThread
    /\ lastStart = NoTime
    /\ gap = NoTime
    /\ waited = NoTime
    /\ storedAt = NoTime

\* gui.py at the start of root.mainloop(): display_off_task = None and
\* display_off() has run.
ViewerBoot ==
    /\ gui_pc = [th \in GuiThreads |-> "idle"]
    /\ display_off_task = 0
    /\ due = [k \in TaskIds |-> NoTime]
    /\ allocated = 0
    /\ lastShown = NoTime
    /\ offDelay = NoTime

Init ==
    /\ Boot
    /\ diagnostics = <<>>
    /\ parsed = NotParsed
    /\ ViewerBoot

Goto(t, label) == pc' = [pc EXCEPT ![t] = label]

\* Mutant: acquire(False) with its result ignored, which never blocks.
CanAcquireAlways(l) == TRUE

\* threading.Lock.acquire(): blocks until the lock is free.
CanAcquire(l) == l = NoThread


(***************************************************************************)
(* PixelArray.flash_on / flash_off, run by thread t from Camera.take_photo *)
(* (countdown) or Camera.update_settings (no countdown).                   *)
(***************************************************************************)
\* Mutant: flash_on ignores countdown=True.
FlashOnAcquireNoCountdown(t) ==
    /\ pc[t] \in {"us_flash_on", "tp_flash_on"}
    /\ CanAcquire(lock)
    /\ lock' = t
    /\ brightness' = "flash"
    /\ blinks' = 0
    /\ Goto(t, IF pc[t] = "tp_flash_on" THEN "tp_white" ELSE "us_white")
    /\ UNCHANGED <<settings_lock, cam, timers, clock, display, aside, fill, i, anim, constructed,
                   hist, times>>

\* self.lock.acquire(); self.pixels.brightness = FLASH_BRIGHTNESS
FlashOnAcquire(t) ==
    /\ pc[t] \in {"us_flash_on", "tp_flash_on"}
    /\ CanAcquire(lock)
    /\ lock' = t
    /\ brightness' = "flash"
    /\ blinks' = 0
    /\ IF pc[t] = "tp_flash_on"
         THEN /\ i' = 0
              /\ Goto(t, IF CountdownCycles > 0 THEN "tp_red" ELSE "tp_white")
         ELSE /\ i' = i
              /\ Goto(t, "us_white")
    /\ UNCHANGED <<settings_lock, cam, timers, clock, display, aside, fill, anim, constructed, hist, times>>

\* countdown: fill red, show, sleep
CountdownRed(t) ==
    /\ pc[t] = "tp_red"
    /\ fill' = "red"
    /\ Goto(t, "tp_off")
    /\ UNCHANGED <<locks, cam, timers, clock, display, aside, brightness, i, blinks, anim, constructed, hist, times>>

\* countdown: fill black, show, sleep; next cycle
CountdownOff(t) ==
    /\ pc[t] = "tp_off"
    /\ fill' = "black"
    /\ i' = i + 1
    /\ blinks' = blinks + 1
    /\ Goto(t, IF i + 1 < CountdownCycles THEN "tp_red" ELSE "tp_white")
    /\ UNCHANGED <<locks, cam, timers, clock, display, aside, brightness, anim, constructed, hist, times>>

\* self.pixels.fill((255, 255, 255)); self.pixels.show()
FlashWhite(t) ==
    /\ pc[t] \in {"us_white", "tp_white"}
    /\ fill' = "white"
    /\ Goto(t, IF pc[t] = "us_white" THEN "us_chvt" ELSE "tp_capture")
    /\ UNCHANGED <<locks, cam, timers, clock, display, aside, brightness, i, blinks, anim, constructed, hist, times>>

\* Mutant: flash_off without self.lock.release().
FlashOffKeepLock(t) ==
    /\ pc[t] \in {"us_flash_off", "tp_flash_off"}
    /\ brightness' = "idle"
    /\ fill' = "black"
    /\ blinks' = 0
    /\ Goto(t, IF pc[t] = "us_flash_off" THEN "us_unlock" ELSE "tp_unlock")
    /\ UNCHANGED <<locks, cam, timers, clock, display, aside, i, anim, constructed, hist, times>>

\* flash_off: idle brightness, black, show, self.lock.release()
FlashOff(t) ==
    /\ pc[t] \in {"us_flash_off", "tp_flash_off"}
    /\ brightness' = "idle"
    /\ fill' = "black"
    /\ lock' = NoThread
    /\ blinks' = 0
    /\ Goto(t, IF pc[t] = "us_flash_off" THEN "us_unlock" ELSE "tp_unlock")
    /\ UNCHANGED <<settings_lock, cam, timers, clock, display, aside, i, anim, constructed, hist, times>>

(***************************************************************************)
(* Camera.update_settings, run by the main thread from Camera.__init__ and *)
(* by each Timer thread.                                                   *)
(***************************************************************************)
\* with self.settings_lock:
UpdateSettingsLock(t) ==
    /\ pc[t] = "us_lock"
    /\ CanAcquire(settings_lock)
    /\ settings_lock' = t
    /\ Goto(t, "us_flash_on")
    /\ UNCHANGED <<lock, cam, timers, clock, display, aside, pixels, anim, constructed, hist, times>>

\* The exception of update_capture_settings leaves the with block (which
\* releases settings_lock) and update_settings; flash_off is skipped.  In
\* the main thread (Camera.__init__) it reaches the finally clause of
\* __main__, in a Timer thread it ends the thread.
CalibrationRaises(t) ==
    /\ settings_lock' = NoThread
    /\ calFailed' = TRUE
    /\ Goto(t, IF t = MainThread THEN "finally" ELSE "died")
    /\ UNCHANGED <<lock, cam, capFailed, destroyed, inFlight>>

\* update_capture_settings: chvt 6; chvt 7 forces the display on, because
\* raspistill hangs with the display off.
ForceDisplayOn(t) ==
    /\ pc[t] = "us_chvt"
    /\ display' = "on"
    /\ Goto(t, "us_calibrate")
    /\ UNCHANGED <<locks, cam, timers, clock, aside, pixels, anim, constructed, hist, times>>

\* update_capture_settings: raspistill --settings runs, tvservice -p turns
\* the display off again, then the stream the tool printed is parsed.
Calibrate(t) ==
    /\ pc[t] = "us_calibrate"
    /\ display' = "off"
    /\ \E stderr \in Streams :
         LET r == update_capture_settings(stderr)
         IN  IF r.raised
             THEN CalibrationRaises(t)
             ELSE /\ result' = [result EXCEPT ![t] = r.settings]
                  /\ Goto(t, "us_store")
                  /\ UNCHANGED <<locks, settings, photo, hist>>
    /\ UNCHANGED <<timers, clock, aside, pixels, anim, constructed, times>>

\* self.settings = <the returned dict>
StoreSettings(t) ==
    /\ pc[t] = "us_store"
    /\ settings' = result[t]
    /\ result' = [result EXCEPT ![t] = NoSettings]
    /\ Goto(t, "us_flash_off")
    /\ storedAt' = clock
    /\ UNCHANGED <<locks, photo, timers, clock, display, aside, pixels, anim, constructed, hist,
                   lastStart, gap, waited>>

\* end of the with block
UpdateSettingsUnlock(t) ==
    /\ pc[t] = "us_unlock"
    /\ settings_lock' = NoThread
    /\ Goto(t, "us_timer")
    /\ UNCHANGED <<lock, cam, timers, clock, display, aside, pixels, anim, constructed, hist, times>>

\* self.settings_update_timer = threading.Timer(INTERVAL, self.update_settings)
CreateTimer(t) ==
    /\ pc[t] = "us_timer"
    /\ settings_update_timer < MaxTimers
    /\ settings_update_timer' = settings_update_timer + 1
    /\ pc' = [pc EXCEPT ![t] = "us_start",
                        ![TimerThread(settings_update_timer + 1)] = "created"]
    /\ UNCHANGED <<locks, cam, armedAt, clock, display, aside, pixels, anim, constructed, hist, times>>

\* Timer thread after start(): waits on its finished event unless cancel()
\* has set it already.
Started(state) == IF state = "created" THEN "armed" ELSE "cancelled"

\* Mutant: after start() the run schedules once more instead of returning.
StartTimerAgain(t) ==
    /\ pc[t] = "us_start"
    /\ LET n == settings_update_timer
       IN  /\ armedAt' = [armedAt EXCEPT ![n] = clock]
           /\ pc' = [pc EXCEPT ![TimerThread(n)] = Started(pc[TimerThread(n)]),
                               ![t] = "us_timer"]
    /\ UNCHANGED <<locks, cam, settings_update_timer, clock, display, aside, pixels, anim,
                   constructed, hist, times>>

\* self.settings_update_timer.start(); return
StartTimer(t) ==
    /\ pc[t] = "us_start"
    /\ LET n == settings_update_timer
       IN  /\ armedAt' = [armedAt EXCEPT ![n] = clock]
           /\ pc' = [pc EXCEPT ![TimerThread(n)] = Started(pc[TimerThread(n)]),
                               ![t] = IF t = MainThread THEN "start_anim" ELSE "finished"]
    /\ constructed' = IF t = MainThread THEN TRUE ELSE constructed
    /\ UNCHANGED <<locks, cam, settings_update_timer, clock, display, aside, pixels, anim, hist, times>>

(***************************************************************************)
(* threading.Timer                                                         *)
(***************************************************************************)
\* Mutant: the Timer waits half the interval only.
ExpiredEarly(n) == clock = armedAt[n] + SETTINGS_UPDATE_INTERVAL \div 2

\* Mutant: the Timer waits two intervals.
ExpiredLate(n) == clock = armedAt[n] + 2 * SETTINGS_UPDATE_INTERVAL

\* The finished.wait(interval) of Timer n times out.
Expired(n) == clock = armedAt[n] + SETTINGS_UPDATE_INTERVAL

\* Timer.run: the wait timed out, finished is not set: call update_settings.
TimerFire(n) ==
    /\ pc[TimerThread(n)] = "armed"
    /\ Expired(n)
    /\ Goto(TimerThread(n), "us_lock")
    /\ gap' = IF lastStart = NoTime THEN NoTime ELSE clock - lastStart
    /\ lastStart' = clock
    /\ waited' = clock - armedAt[n]
    /\ storedAt' = storedAt
    /\ UNCHANGED <<locks, cam, timers, clock, display, aside, pixels, anim, constructed, hist>>

\* Timer.cancel(): sets finished; only a Timer still waiting (or not yet
\* started) is stopped, one whose function runs or has run is not.
Cancelled(state) ==
    IF state = "armed" THEN "cancelled"
    ELSE IF state = "created" THEN "created_cancelled"
    ELSE state

\* Simulated time passes; an armed Timer fires when its interval is over.
Tick ==
    /\ clock + Quantum <= MaxClock
    /\ \A n \in TimerIds : pc[TimerThread(n)] = "armed" => ~Expired(n)
    /\ clock' = clock + Quantum
    /\ UNCHANGED <<pc, locks, cam, timers, display, aside, pixels, anim, constructed, hist, times>>


(***************************************************************************)
(* __main__: construction, the control loop, the finally clause.           *)
(***************************************************************************)
\* Mutant: Camera.__init__ only schedules the first calibration.
CameraConstructDeferred ==
    /\ pc[MainThread] = "construct"
    /\ Goto(MainThread, "us_timer")
    /\ UNCHANGED <<locks, cam, timers, clock, display, aside, pixels, anim, constructed, hist, times>>

\* button, pixel_array, then RaspiStillCamera(...): Camera.__init__ calls
\* self.update_settings() in the main thread.
CameraConstruct ==
    /\ pc[MainThread] = "construct"
    /\ Goto(MainThread, "us_lock")
    /\ UNCHANGED <<locks, cam, timers, clock, display, aside, pixels, anim, constructed, hist, times>>

\* idle_animation = IdleAnimation(pixel_array); idle_animation.start()
IdleStart ==
    /\ pc[MainThread] = "start_anim"
    /\ pc' = [pc EXCEPT ![MainThread] = "wait", ![AnimThread] = "run"]
    /\ UNCHANGED <<locks, cam, timers, clock, display, aside, pixels, anim, constructed, hist, times>>

\* button.wait_for_press() returns
ButtonPress ==
    /\ pc[MainThread] = "wait"
    /\ Goto(MainThread, "tp_lock")
    /\ UNCHANGED <<locks, cam, timers, clock, display, aside, pixels, anim, constructed, hist, times>>

\* KeyboardInterrupt while polling the button: the only other way out of
\* while True.
KeyboardInterrupt ==
    /\ pc[MainThread] = "wait"
    /\ Goto(MainThread, "finally")
    /\ UNCHANGED <<locks, cam, timers, clock, display, aside, pixels, anim, constructed, hist, times>>

\* take_photo: with self.settings_lock:
TakePhotoLock ==
    /\ pc[MainThread] = "tp_lock"
    /\ CanAcquire(settings_lock)
    /\ settings_lock' = MainThread
    /\ Goto(MainThread, "tp_flash_on")
    /\ UNCHANGED <<lock, cam, timers, clock, display, aside, pixels, anim, constructed, hist, times>>

\* The exception of capture_image leaves the with block (which releases
\* settings_lock), take_photo and the while loop: no except clause catches
\* it, the finally clause of __main__ runs.  flash_off is skipped.
CaptureRaises ==
    /\ settings_lock' = NoThread
    /\ capFailed' = TRUE
    /\ Goto(MainThread, "finally")
    /\ UNCHANGED <<lock, cam, calFailed, destroyed, inFlight>>

\* self.capture_image(output_path): raspistill writes the photo with
\* self.settings, or the call raises.  No display command is issued.
Capture ==
    /\ pc[MainThread] = "tp_capture"
    /\ \/ /\ photo' = settings
          /\ Goto(MainThread, "tp_flash_off")
          /\ UNCHANGED <<locks, settings, result, hist>>
       \/ CaptureRaises
    /\ UNCHANGED <<timers, clock, display, aside, pixels, anim, constructed, times>>

\* end of the with block of take_photo; back to while True
TakePhotoUnlock ==
    /\ pc[MainThread] = "tp_unlock"
    /\ settings_lock' = NoThread
    /\ Goto(MainThread, "wait")
    /\ UNCHANGED <<lock, cam, timers, clock, display, aside, pixels, anim, constructed, hist, times>>

\* Thread t is inside an update_settings run.
Running(t) ==
    pc[t] \in {"us_lock", "us_flash_on", "us_white", "us_chvt", "us_calibrate", "us_store",
               "us_flash_off", "us_unlock", "us_timer", "us_start"}

\* The Timer thread, if any, whose calibration holds PixelArray.lock and has
\* not stored its result yet.
InFlight ==
    LET held == {t \in TimerThreads :
                    lock = t /\ pc[t] \in {"us_white", "us_chvt", "us_calibrate", "us_store"}}
    IN  IF held = {} THEN NoThread ELSE CHOOSE t \in held : TRUE

\* Mutant: destroy also stops the update_settings run in flight.
CameraDestroyAbort ==
    /\ pc' = [t \in Threads |->
                IF t = MainThread THEN "finally_anim"
                ELSE IF t \in TimerThreads /\ (Running(t) \/ pc[t] = "armed")
                THEN "cancelled"
                ELSE pc[t]]
    /\ destroyed' = TRUE
    /\ inFlight' = InFlight
    /\ UNCHANGED <<locks, cam, timers, clock, display, aside, pixels, anim, constructed,
                   calFailed, capFailed, times>>

\* Camera.destroy: self.settings_update_timer.cancel()
CameraDestroy ==
    /\ pc' = [pc EXCEPT
                ![TimerThread(settings_update_timer)] =
                    Cancelled(pc[TimerThread(settings_update_timer)]),
                ![MainThread] = "finally_anim"]
    /\ destroyed' = TRUE
    /\ inFlight' = InFlight
    /\ UNCHANGED <<locks, cam, timers, clock, display, aside, pixels, anim, constructed,
                   calFailed, capFailed, times>>

\* finally: if camera: camera.destroy().  When Camera.__init__ raised, the
\* name camera is unbound and the test raises NameError: the rest of the
\* clause is skipped.
Finally ==
    /\ pc[MainThread] = "finally"
    /\ IF constructed
       THEN CameraDestroy
       ELSE /\ Goto(MainThread, "crashed")
            /\ UNCHANGED <<locks, cam, timers, clock, display, aside, pixels, anim, constructed, hist, times>>

\* idle_animation.stop(): if self.running: self.running = False; join
IdleStop ==
    /\ pc[MainThread] = "finally_anim"
    /\ running' = FALSE
    /\ Goto(MainThread, IF running THEN "join" ELSE "finally_pixels")
    /\ UNCHANGED <<locks, cam, timers, clock, display, aside, pixels, constructed, hist, times>>

\* self.join() returns when the animation thread has ended
IdleJoin ==
    /\ pc[MainThread] = "join"
    /\ pc[AnimThread] = "done"
    /\ Goto(MainThread, "finally_pixels")
    /\ UNCHANGED <<locks, cam, timers, clock, display, aside, pixels, anim, constructed, hist, times>>

\* pixel_array.destroy(); the main thread ends
PixelDestroy ==
    /\ pc[MainThread] = "finally_pixels"
    /\ Goto(MainThread, "exited")
    /\ UNCHANGED <<locks, cam, timers, clock, display, aside, pixels, anim, constructed, hist, times>>

(***************************************************************************)
(* IdleAnimation.run                                                       *)
(***************************************************************************)
\* self.running = True
AnimRun ==
    /\ pc[AnimThread] = "run"
    /\ running' = TRUE
    /\ Goto(AnimThread, "loop")
    /\ UNCHANGED <<locks, cam, timers, clock, display, aside, pixels, constructed, hist, times>>

\* if not self.running: return None
AnimCheck ==
    /\ pc[AnimThread] = "loop"
    /\ Goto(AnimThread, IF running THEN "with_lock" ELSE "done")
    /\ UNCHANGED <<locks, cam, timers, clock, display, aside, pixels, anim, constructed, hist, times>>

\* Mutant: the frame is drawn without waiting for the lock.
AnimAcquireUnguarded ==
    /\ pc[AnimThread] = "with_lock"
    /\ lock' = AnimThread
    /\ Goto(AnimThread, "draw")
    /\ UNCHANGED <<settings_lock, cam, timers, clock, display, aside, pixels, anim, constructed,
                   hist, times>>

\* with self.pixel_array.lock:
AnimAcquire ==
    /\ pc[AnimThread] = "with_lock"
    /\ CanAcquire(lock)
    /\ lock' = AnimThread
    /\ Goto(AnimThread, "draw")
    /\ UNCHANGED <<settings_lock, cam, timers, clock, display, aside, pixels, anim, constructed, hist, times>>

\* the frame: every pixel set from wheel(), show(); end of the with block
AnimShow ==
    /\ pc[AnimThread] = "draw"
    /\ fill' = "wheel"
    /\ lock' = NoThread
    /\ Goto(AnimThread, "loop")
    /\ UNCHANGED <<settings_lock, cam, timers, clock, display, aside, brightness, i, blinks, anim, constructed,
                   hist, times>>

(***************************************************************************)
(* The program.                                                            *)
(***************************************************************************)
Next ==
    \/ CameraConstruct
    \/ \E t \in CameraThreads : UpdateSettingsLock(t)
    \/ \E t \in CameraThreads : FlashOnAcquire(t)
    \/ \E t \in CameraThreads : CountdownRed(t)
    \/ \E t \in CameraThreads : CountdownOff(t)
    \/ \E t \in CameraThreads : FlashWhite(t)
    \/ \E t \in CameraThreads : ForceDisplayOn(t)
    \/ \E t \in CameraThreads : Calibrate(t)
    \/ \E t \in CameraThreads : StoreSettings(t)
    \/ \E t \in CameraThreads : FlashOff(t)
    \/ \E t \in CameraThreads : UpdateSettingsUnlock(t)
    \/ \E t \in CameraThreads : CreateTimer(t)
    \/ \E t \in CameraThreads : StartTimer(t)
    \/ \E n \in TimerIds : TimerFire(n)
    \/ IdleStart
    \/ ButtonPress
    \/ KeyboardInterrupt
    \/ TakePhotoLock
    \/ Capture
    \/ TakePhotoUnlock
    \/ Finally
    \/ IdleStop
    \/ IdleJoin
    \/ PixelDestroy
    \/ AnimRun
    \/ AnimCheck
    \/ AnimAcquire
    \/ AnimShow
    \/ Tick

Spec == Init /\ [][Next]_vars

(***************************************************************************)
(* The booth running without failure and without interrupt: every          *)
(* calibration and capture returns, and the scheduler lets every thread    *)
(* that stays able to take a step take it (weak fairness per thread).  The *)
(* button and the passing of time are not under the scheduler.             *)
(***************************************************************************)
\* A step of update_settings or of flash_on / flash_off in thread t.
CameraStep(t) ==
    \/ UpdateSettingsLock(t)
    \/ FlashOnAcquire(t)
    \/ CountdownRed(t)
    \/ CountdownOff(t)
    \/ FlashWhite(t)
    \/ ForceDisplayOn(t)
    \/ Calibrate(t) /\ ~calFailed'
    \/ StoreSettings(t)
    \/ FlashOff(t)
    \/ UpdateSettingsUnlock(t)
    \/ CreateTimer(t)
    \/ StartTimer(t)
    \/ \E n \in TimerIds : t = TimerThread(n) /\ TimerFire(n)

\* A step of __main__ or take_photo in the main thread.
MainStep ==
    \/ CameraConstruct
    \/ IdleStart
    \/ TakePhotoLock
    \/ Capture /\ ~capFailed'
    \/ TakePhotoUnlock

\* A step of IdleAnimation.run.
AnimStep == AnimRun \/ AnimCheck \/ AnimAcquire \/ AnimShow

FairNext ==
    \/ \E t \in CameraThreads : CameraStep(t)
    \/ MainStep
    \/ AnimStep
    \/ ButtonPress
    \/ Tick

Fairness ==
    /\ \A t \in CameraThreads : WF_vars(CameraStep(t))
    /\ WF_vars(MainStep)
    /\ WF_vars(AnimStep)

FairSpec == Init /\ [][FairNext]_vars /\ Fairness

(***************************************************************************)
(* The image viewer (src/gui.py): Handler.handle_event in the watchdog     *)
(* observer thread, display_off as a root.after callback in the Tk         *)
(* thread.  root.after and root.after_cancel called from the observer      *)
(* thread are carried out by the Tk thread between two callbacks; the      *)
(* other statements of handle_event interleave freely with display_off.    *)
(***************************************************************************)
\* What the image viewer never touches.
booth == <<pc, locks, cam, timers, pixels, anim, constructed, hist, times, parse>>

Pending == {k \in TaskIds : due[k] # NoTime}

GuiGoto(th, label) == gui_pc' = [gui_pc EXCEPT ![th] = label]

\* on_any_event with a path ending in .jpg: handle_event enters its try
ObserveJpg ==
    /\ gui_pc["observer"] = "idle"
    /\ GuiGoto("observer", "open")
    /\ UNCHANGED <<booth, clock, display, display_off_task, due, allocated, lastShown, offDelay>>

\* photo = ImageTk.PhotoImage(Image.open(path)); insta_photo.configure:
\* done, or an exception that 'except: pass' swallows.
OpenImage ==
    /\ gui_pc["observer"] = "open"
    /\ \E next \in {"display_on", "idle"} : GuiGoto("observer", next)
    /\ UNCHANGED <<booth, clock, display, display_off_task, due, allocated, lastShown, offDelay>>

\* display_on(): xset dpms force on
DisplayOn ==
    /\ gui_pc["observer"] = "display_on"
    /\ display' = "on"
    /\ lastShown' = clock
    /\ GuiGoto("observer", "test")
    /\ UNCHANGED <<booth, clock, display_off_task, due, allocated, offDelay>>

\* if display_off_task is not None:
TestTask ==
    /\ gui_pc["observer"] = "test"
    /\ GuiGoto("observer", IF display_off_task # 0 THEN "cancel" ELSE "schedule")
    /\ UNCHANGED <<booth, clock, display, display_off_task, due, allocated, lastShown, offDelay>>

\* root.after_cancel(display_off_task), the global read again.  With None
\* tkinter raises ValueError (swallowed by except) or, in older versions,
\* does nothing.
CancelTask ==
    /\ gui_pc["observer"] = "cancel"
    /\ gui_pc["tk"] = "idle"
    /\ IF display_off_task = 0
       THEN /\ \E next \in {"idle", "schedule"} : GuiGoto("observer", next)
            /\ due' = due
       ELSE /\ due' = [due EXCEPT ![display_off_task] = NoTime]
            /\ GuiGoto("observer", "schedule")
    /\ UNCHANGED <<booth, clock, display, display_off_task, allocated, lastShown, offDelay>>

\* display_off_task = root.after(PHOTO_DISPLAY_TIMEOUT, display_off)
ScheduleTask ==
    /\ gui_pc["observer"] = "schedule"
    /\ gui_pc["tk"] = "idle"
    /\ allocated < MaxTasks
    /\ allocated' = allocated + 1
    /\ due' = [due EXCEPT ![allocated + 1] = clock + DisplayTimeout]
    /\ display_off_task' = allocated + 1
    /\ GuiGoto("observer", "idle")
    /\ UNCHANGED <<booth, clock, display, lastShown, offDelay>>

\* root.mainloop(): the time of a pending task has come, display_off is
\* called.
TaskFire(k) ==
    /\ gui_pc["tk"] = "idle"
    /\ due[k] # NoTime
    /\ clock >= due[k]
    /\ due' = [due EXCEPT ![k] = NoTime]
    /\ GuiGoto("tk", "tvservice")
    /\ UNCHANGED <<booth, clock, display, display_off_task, allocated, lastShown, offDelay>>

\* display_off: subprocess.call("tvservice -p")
DisplayOffCommand ==
    /\ gui_pc["tk"] = "tvservice"
    /\ display' = "off"
    /\ offDelay' = IF lastShown = NoTime THEN NoTime ELSE clock - lastShown
    /\ GuiGoto("tk", "clear")
    /\ UNCHANGED <<booth, clock, display_off_task, due, allocated, lastShown>>

\* display_off: display_off_task = None
DisplayOffClear ==
    /\ gui_pc["tk"] = "clear"
    /\ display_off_task' = 0
    /\ GuiGoto("tk", "idle")
    /\ UNCHANGED <<booth, clock, display, due, allocated, lastShown, offDelay>>

\* Time passes, up to the moment the next pending task is due.
ViewerTick ==
    /\ clock + ViewerQuantum <= MaxClock
    /\ \A k \in Pending : clock < due[k]
    /\ clock' = clock + ViewerQuantum
    /\ UNCHANGED <<booth, display, viewer>>

GuiNext ==
    \/ ObserveJpg
    \/ OpenImage
    \/ DisplayOn
    \/ TestTask
    \/ CancelTask
    \/ ScheduleTask
    \/ \E k \in TaskIds : TaskFire(k)
    \/ DisplayOffCommand
    \/ DisplayOffClear
    \/ ViewerTick

GuiSpec == Init /\ [][GuiNext]_vars

(***************************************************************************)
(* RaspiStillCamera.update_capture_settings on its own: the parser applied *)
(* to any diagnostic stream.                                               *)
(***************************************************************************)
ParseInit ==
    /\ Boot
    /\ diagnostics \in ProbeStreams
    /\ parsed = NotParsed
    /\ ViewerBoot

\* m1, m2 = find_last_match(...); settings = {...}; return settings
Probe ==
    /\ parsed = NotParsed
    /\ parsed' = update_capture_settings(diagnostics)
    /\ UNCHANGED <<pc, locks, cam, timers, clock, display, diagnostics, viewer, pixels, anim,
                   constructed, hist, times>>

ParseNext == Probe

ParseSpec == ParseInit /\ [][ParseNext]_vars


(***************************************************************************)
(* Vocabulary of the properties.                                           *)
(***************************************************************************)
\* Thread t is between the acquire of flash_on and the release of flash_off
\* inside update_settings (calibrating) ...
Calibrating(t) ==
    pc[t] \in {"us_white", "us_chvt", "us_calibrate", "us_store", "us_flash_off"}

\* ... or inside take_photo (countdown and capture).
Capturing(t) == pc[t] \in {"tp_red", "tp_off", "tp_white", "tp_capture", "tp_flash_off"}

InCriticalSection(t) == Calibrating(t) \/ Capturing(t)

\* The main thread is in the while loop of __main__.
InLoop == pc[MainThread] \in {"wait", "tp_lock", "tp_flash_on", "tp_red", "tp_off",
                              "tp_white", "tp_capture", "tp_flash_off", "tp_unlock"}

\* Whoever holds PixelArray.lock is still going to release it.
HolderAlive ==
    \/ lock = NoThread
    \/ lock = AnimThread /\ pc[AnimThread] = "draw"
    \/ lock \in CameraThreads /\ InCriticalSection(lock)

(***************************************************************************)
(* C1: for every interleaving of take_photo (main thread) and              *)
(* update_settings (timer threads), at most one camera operation is inside *)
(* the held critical section: a capture and a calibration never run at the *)
(* same time.                                                              *)
(***************************************************************************)
AtMostOneCameraOperation ==
    /\ Cardinality({t \in CameraThreads : InCriticalSection(t)}) <= 1
    /\ ~(pc[MainThread] = "tp_capture" /\ \E t \in TimerThreads : Calibrating(t))

\* A recalibration has fired during a capture and waits for it.
RecalibrationWaitsForCapture ==
    /\ pc[MainThread] = "tp_capture"
    /\ \E t \in TimerThreads : pc[t] = "us_lock"

(***************************************************************************)
(* C2: whenever take_photo or update_settings has ended, on every exit     *)
(* path, the PixelArray lock taken by flash_on has been released: a camera *)
(* thread holds the lock only while it is inside its operation.            *)
(***************************************************************************)
LockReleasedOnEveryExit ==
    \A t \in CameraThreads : lock = t => InCriticalSection(t)

(***************************************************************************)
(* C3: a capture reads settings that are the complete result of a          *)
(* calibration finished before the capture started: it never runs before   *)
(* the first calibration has stored its settings, and while take_photo     *)
(* holds the lock no calibration is in progress or has a result pending.   *)
(***************************************************************************)
CaptureUsesCompletedCalibration ==
    /\ Capturing(MainThread) =>
          /\ Complete(settings)
          /\ \A t \in CameraThreads : ~Calibrating(t) /\ result[t] = NoSettings
    /\ photo = NoSettings \/ Complete(photo)

\* A capture runs on settings stored by a periodic recalibration.
CaptureAfterRecalibration ==
    /\ pc[MainThread] = "tp_capture"
    /\ settings_update_timer >= 2
    /\ \E t \in TimerThreads : pc[t] = "finished"

(***************************************************************************)
(* C4: a calibration that fails leaves the cached settings as they were;   *)
(* the cache changes only when a calibration that succeeded stores its     *)
(* whole result, and never holds a partly built value.                     *)
(***************************************************************************)
FailedCalibrationKeepsCache ==
    /\ [](settings = NoSettings \/ Complete(settings))
    /\ [][/\ (\E t \in CameraThreads :
                 pc[t] = "us_calibrate" /\ pc'[t] \in {"died", "finally"})
              => settings' = settings
          /\ settings' # settings
              => \E t \in CameraThreads :
                    /\ pc[t] = "us_store" /\ pc'[t] = "us_flash_off"
                    /\ Complete(result[t]) /\ settings' = result[t]]_vars

\* A recalibration has failed and the cache still holds complete settings.
CacheKeptAfterFailure ==
    /\ calFailed
    /\ Complete(settings)
    /\ \E t \in TimerThreads : pc[t] = "died"

(***************************************************************************)
(* C5: after a failed periodic recalibration a take_photo call still       *)
(* acquires the lock and captures with the settings cached before: when it *)
(* waits in flash_on, the lock is free or its holder is going to release   *)
(* it.                                                                     *)
(***************************************************************************)
TakePhotoProceedsAfterFailedRecalibration ==
    (calFailed /\ constructed /\ pc[MainThread] = "tp_flash_on") => HolderAlive

(***************************************************************************)
(* C6: a failed capture does not end the control loop: after capture_image *)
(* has raised, the main thread is still in the loop.                       *)
(***************************************************************************)
FailedCaptureKeepsLoop ==
    capFailed => InLoop

(***************************************************************************)
(* C7: once Camera.destroy has returned, no recalibration timer is armed   *)
(* afterwards, so that no update_settings run can start.                   *)
(***************************************************************************)
NoRecalibrationAfterDestroy ==
    destroyed => \A n \in TimerIds : pc[TimerThread(n)] # "armed"

(***************************************************************************)
(* C8: Camera.destroy does not abort an operation in flight: the destroy   *)
(* step changes neither the position of a running update_settings, nor the *)
(* locks, nor the settings; afterwards the run in flight is never          *)
(* cancelled, can always take its next step while it holds the lock, and   *)
(* has released the lock when it has ended.                                *)
(***************************************************************************)
DestroyDoesNotAbort ==
    /\ [][(pc[MainThread] = "finally" /\ pc'[MainThread] = "finally_anim") =>
             /\ \A t \in TimerThreads : Running(t) => pc'[t] = pc[t]
             /\ UNCHANGED <<locks, cam>>]_vars
    /\ [](destroyed /\ inFlight # NoThread =>
             /\ Running(inFlight) \/ pc[inFlight] \in {"finished", "died"}
             /\ Calibrating(inFlight) =>
                   ENABLED (\/ FlashWhite(inFlight) \/ ForceDisplayOn(inFlight)
                            \/ Calibrate(inFlight)
                            \/ StoreSettings(inFlight) \/ FlashOff(inFlight))
             /\ pc[inFlight] = "finished" => lock # inFlight /\ Complete(settings))

\* The calibration that held the lock at destroy, its result not yet stored,
\* has stored it, released the lock and run to its end.
InFlightRunCompleted ==
    /\ destroyed
    /\ inFlight # NoThread
    /\ pc[inFlight] = "finished"
    /\ lock = NoThread
    /\ Complete(settings)

(***************************************************************************)
(* C9: as long as destroy has not been called, after every update_settings *)
(* run has ended (whatever its outcome) a recalibration timer is armed.    *)
(***************************************************************************)
RecalibrationStaysArmed ==
    (constructed /\ ~destroyed /\ \A t \in TimerThreads : ~Running(t))
        => \E n \in TimerIds : pc[TimerThread(n)] \in {"armed"}

(***************************************************************************)
(* C10, as claimed: the start times of consecutive recalibrations are 600  *)
(* seconds apart.                                                          *)
(***************************************************************************)
RecalibrationEvery600 ==
    gap = NoTime \/ gap = SETTINGS_UPDATE_INTERVAL

(***************************************************************************)
(* C10, amended: each recalibration starts exactly 600 seconds after its   *)
(* timer was started, which happens at the end of the previous             *)
(* update_settings run; so consecutive starts are at least 600 seconds     *)
(* apart (600 plus the time the previous run took).                        *)
(***************************************************************************)
RecalibrationAfterInterval ==
    /\ waited = NoTime \/ waited = SETTINGS_UPDATE_INTERVAL
    /\ gap = NoTime \/ gap >= waited

\* Two recalibrations have started, the second after a run that took time.
SecondRecalibrationStarted ==
    /\ gap # NoTime
    /\ gap > SETTINGS_UPDATE_INTERVAL
    /\ waited = SETTINGS_UPDATE_INTERVAL

\* No update_settings run of a Timer thread is in progress or blocked on a
\* lock.
NoRecalibrationRunning == \A t \in TimerThreads : ~Running(t)

\* No armed Timer has waited its interval: none is about to fire.
NoRecalibrationDue ==
    \A n \in TimerIds :
        pc[TimerThread(n)] = "armed" => clock < armedAt[n] + SETTINGS_UPDATE_INTERVAL

(***************************************************************************)
(* C11, as claimed: whenever a capture runs, the cached settings were      *)
(* stored at most one recalibration interval (600 seconds) earlier, unless *)
(* a recalibration is in progress or has fired and waits for the lock.     *)
(***************************************************************************)
CaptureSettingsYoungerThanInterval ==
    (pc[MainThread] = "tp_capture" /\ NoRecalibrationRunning /\ NoRecalibrationDue)
        => clock - storedAt <= SETTINGS_UPDATE_INTERVAL

(***************************************************************************)
(* C11, amended: whenever a capture runs and no recalibration is in        *)
(* progress or waiting, a timer is armed that was started after the        *)
(* settings were stored and at most 600 seconds ago: the settings are at   *)
(* most 600 seconds older than the start() of the pending timer, that is   *)
(* 600 seconds plus the time between the store and that start().           *)
(***************************************************************************)
CaptureSettingsYoungerThanTimer ==
    (pc[MainThread] = "tp_capture" /\ NoRecalibrationRunning)
        => \E n \in TimerIds :
              /\ pc[TimerThread(n)] = "armed"
              /\ storedAt # NoTime /\ storedAt <= armedAt[n]
              /\ clock - armedAt[n] <= SETTINGS_UPDATE_INTERVAL
              /\ clock - storedAt <= SETTINGS_UPDATE_INTERVAL + (armedAt[n] - storedAt)

\* A capture runs on settings stored more than 600 seconds ago while the
\* next recalibration is neither running nor due.
CaptureOnOldSettings ==
    /\ pc[MainThread] = "tp_capture"
    /\ NoRecalibrationRunning
    /\ NoRecalibrationDue
    /\ clock - storedAt > SETTINGS_UPDATE_INTERVAL

\* The fraction f = <<n, d>> is the value num / den.
Equals(f, num, den) == f # None /\ f[2] # 0 /\ f[1] * den = num * f[2]

\* The stream has an occurrence of the pattern.
Contains(kind) == \E k \in 1..Len(diagnostics) : diagnostics[k].kind = kind

\* Groups of the occurrence of the pattern that no other one follows.
LastGroups(kind) ==
    LET k == CHOOSE k \in 1..Len(diagnostics) :
                 /\ diagnostics[k].kind = kind
                 /\ \A j \in (k + 1)..Len(diagnostics) : diagnostics[j].kind # kind
    IN  diagnostics[k].groups

(***************************************************************************)
(* C12: for every diagnostic stream with at least one exposure line and at *)
(* least one AWB line, the calibration of the external-tool backend        *)
(* returns the values of the last occurrence of each line, however many    *)
(* other occurrences precede it: shutter_speed = exposure, analog_gain =   *)
(* analog_gain_n / analog_gain_d, digital_gain = digital_gain_n /          *)
(* digital_gain_d, awb_gains = (awb_r_n / awb_r_d, awb_b_n / awb_b_d); it  *)
(* raises only where one of these quotients of the last occurrence has no  *)
(* value (denominator 0).  Exposure lines (1200, 100/50, 10/10) then       *)
(* (1500, 120/60, 20/10) give shutter_speed 1500, analog_gain 2,           *)
(* digital_gain 2.                                                         *)
(***************************************************************************)
CalibrationReturnsLastOccurrence ==
    (parsed # NotParsed /\ Contains("exposure") /\ Contains("awb")) =>
        LET e == LastGroups("exposure")
            w == LastGroups("awb")
        IN  /\ parsed.raised <=> (e[3] = 0 \/ e[5] = 0 \/ w[2] = 0 \/ w[4] = 0)
            /\ ~parsed.raised =>
                  /\ Equals(parsed.settings.shutter_speed, e[1], 1)
                  /\ Equals(parsed.settings.analog_gain, e[2], e[3])
                  /\ Equals(parsed.settings.digital_gain, e[4], e[5])
                  /\ Equals(parsed.settings.awb_gains[1], w[1], w[2])
                  /\ Equals(parsed.settings.awb_gains[2], w[3], w[4])
            /\ (e = <<1500, 120, 60, 20, 10>> /\ ~parsed.raised) =>
                  /\ parsed.settings.shutter_speed = <<1500, 1>>
                  /\ parsed.settings.analog_gain = <<2, 1>>
                  /\ parsed.settings.digital_gain = <<2, 1>>

\* The example: the exposure line with 1200 precedes the one with 1500, and
\* the values of the later one are returned.
LaterExposureLineParsed ==
    /\ Len(diagnostics) = 3
    /\ diagnostics[1] = ExposureLine(1200, 100, 50, 10, 10)
    /\ diagnostics[2] = ExposureLine(1500, 120, 60, 20, 10)
    /\ diagnostics[3].kind = "awb"
    /\ ~parsed.raised
    /\ parsed.settings.shutter_speed = <<1500, 1>>
    /\ parsed.settings.analog_gain = <<2, 1>>

(***************************************************************************)
(* C13: every invocation of raspistill, the settings probe of calibration  *)
(* as well as the image capture of capture_image, happens with the display *)
(* forced on: the off-then-on toggle precedes it and no power-off lies     *)
(* between the toggle and the invocation.                                  *)
(***************************************************************************)
ToolInvokedWithDisplayForcedOn ==
    /\ \A t \in CameraThreads : pc[t] = "us_calibrate" => display = "on"
    /\ pc[MainThread] = "tp_capture" => display = "on"

\* Timers that are armed or whose update_settings run is executing.
PendingRecalibrations ==
    {n \in TimerIds : pc[TimerThread(n)] = "armed" \/ Running(TimerThread(n))}

\* update_settings runs that have got as far as creating their Timer.
Rescheduled ==
    {t \in CameraThreads :
        \/ pc[t] = "us_start"
        \/ t = MainThread /\ constructed
        \/ t \in TimerThreads /\ pc[t] = "finished"}

(***************************************************************************)
(* C14: recalibrations never multiply.  In every state at most one         *)
(* recalibration is armed or running (never two armed timers, never an     *)
(* armed timer while an update_settings run triggered by a timer is still  *)
(* executing); every Timer object was created by a different               *)
(* update_settings run; and each timer fire performs one calibration       *)
(* round: a Timer thread starts update_settings only from its armed wait,  *)
(* is armed only by its start(), calibrates only in that one run and never *)
(* runs again once it has ended.                                           *)
(***************************************************************************)
RecalibrationsNeverMultiply ==
    /\ [](Cardinality(PendingRecalibrations) <= 1)
    /\ [](settings_update_timer = Cardinality(Rescheduled))
    /\ [][\A t \in TimerThreads :
             /\ (pc'[t] = "us_lock" /\ pc[t] # "us_lock") => pc[t] = "armed"
             /\ (pc'[t] = "armed" /\ pc[t] # "armed") => pc[t] = "created"
             /\ (pc'[t] = "us_calibrate" /\ pc[t] # "us_calibrate") => pc[t] = "us_chvt"
             /\ pc[t] \in {"finished", "died", "cancelled"} => pc'[t] = pc[t]]_vars

\* The timer armed by a run that a timer had fired, after two rounds.
ThirdTimerArmed ==
    /\ settings_update_timer = 3
    /\ pc[TimerThread(1)] = "finished"
    /\ pc[TimerThread(2)] = "finished"
    /\ pc[TimerThread(3)] = "armed"

(***************************************************************************)
(* C15: without failures and under weak fairness of every thread, an       *)
(* operation blocked on a lock is only delayed: each take_photo call       *)
(* eventually returns to the loop and each fired recalibration eventually  *)
(* gets the locks, calibrates and leaves its critical section, also while  *)
(* the animation thread takes and releases PixelArray.lock for every       *)
(* frame.                                                                  *)
(***************************************************************************)
BlockedOperationEventuallyRuns ==
    /\ (pc[MainThread] = "tp_lock") ~> (pc[MainThread] = "wait")
    /\ \A t \in TimerThreads :
          (pc[t] = "us_lock") ~> (pc[t] \in {"us_timer", "us_start", "finished"})

(***************************************************************************)
(* C16: take_photo captures only after it has taken the indicator lock and *)
(* the whole countdown has run while it held the lock (3 cycles of red on, *)
(* then off, then solid white at flash brightness); update_settings takes  *)
(* the lock, shows no countdown cycle and calibrates under solid white.    *)
(***************************************************************************)
CountdownBeforeCaptureOnly ==
    /\ [](pc[MainThread] = "tp_capture" =>
             /\ lock = MainThread
             /\ blinks = CountdownCycles
             /\ fill = "white" /\ brightness = "flash")
    /\ [](\A t \in CameraThreads : pc[t] \in {"us_chvt", "us_calibrate"} =>
             /\ lock = t
             /\ blinks = 0
             /\ fill = "white" /\ brightness = "flash")
    /\ [][blinks' # blinks =>
             \/ blinks' = 0
             \/ /\ lock = MainThread /\ lock' = MainThread
                /\ Capturing(MainThread)
                /\ fill = "red" /\ fill' = "black"
                /\ blinks' = blinks + 1]_vars

\* A later photo: the countdown has run again before its capture.
CountdownRanBeforeSecondCapture ==
    /\ pc[MainThread] = "tp_capture"
    /\ photo # NoSettings
    /\ blinks = CountdownCycles
    /\ fill = "white"

(***************************************************************************)
(* C17: the idle animation and the flash never overlap.  The animation     *)
(* thread sets and shows pixels only while it holds PixelArray.lock, and   *)
(* then no camera thread is between flash_on and flash_off; while a camera *)
(* thread holds the lock (countdown, capture, calibration) no step of the  *)
(* animation thread writes a pixel or shows a frame.                       *)
(***************************************************************************)
AnimationNeverOverlapsFlash ==
    /\ [](pc[AnimThread] = "draw" =>
             /\ lock = AnimThread
             /\ \A t \in CameraThreads : ~InCriticalSection(t))
    /\ [][(pc[AnimThread] = "draw" /\ pc'[AnimThread] # "draw") =>
             /\ lock = AnimThread /\ lock' = NoThread
             /\ fill' = "wheel"]_vars
    /\ [][(\E t \in CameraThreads : lock = t) =>
             /\ pc[AnimThread] # "draw" /\ pc'[AnimThread] # "draw"
             /\ (fill' = "wheel" => fill = "wheel")]_vars

\* The animation thread waits for the lock during the countdown of a photo.
AnimationWaitsDuringCountdown ==
    /\ pc[AnimThread] = "with_lock"
    /\ pc[MainThread] = "tp_off"
    /\ lock = MainThread
    /\ fill = "red"

\* Thread t is inside the with block of settings_lock.
InWith(t) ==
    \/ pc[t] \in {"us_flash_on", "tp_flash_on", "us_unlock", "tp_unlock"}
    \/ InCriticalSection(t)

\* Thread t is in an acquire of a lock that another thread holds.
Blocked(t) ==
    \/ pc[t] \in {"us_lock", "tp_lock"} /\ settings_lock # NoThread
    \/ pc[t] \in {"us_flash_on", "tp_flash_on", "with_lock"} /\ lock # NoThread

(***************************************************************************)
(* C18: as long as no calibration and no capture has raised, the threads   *)
(* never deadlock.  settings_lock is taken before PixelArray.lock (a       *)
(* camera thread that holds PixelArray.lock holds settings_lock and is     *)
(* between flash_on and flash_off), no thread waits for settings_lock      *)
(* while it holds PixelArray.lock, every lock that is held is held by a    *)
(* thread inside its block, and whenever a thread is blocked on a lock     *)
(* some holder of a lock is not blocked: never is every thread blocked.    *)
(***************************************************************************)
NoDeadlockWithoutFailure ==
    (~calFailed /\ ~capFailed) =>
        /\ \A t \in CameraThreads :
              /\ lock = t => InCriticalSection(t) /\ settings_lock = t
              /\ settings_lock = t => InWith(t)
              /\ pc[t] \in {"us_lock", "tp_lock"} => lock # t /\ settings_lock # t
        /\ lock = AnimThread => pc[AnimThread] = "draw"
        /\ settings_lock # AnimThread
        /\ (\E t \in Threads : Blocked(t)) =>
              \E u \in Threads : (lock = u \/ settings_lock = u) /\ ~Blocked(u)

\* Two threads wait in a chain: the main thread for settings_lock, held by
\* a recalibration that waits for PixelArray.lock, held by the animation.
ChainOfWaiters ==
    /\ ~calFailed /\ ~capFailed
    /\ pc[MainThread] = "tp_lock"
    /\ \E t \in TimerThreads : pc[t] = "us_flash_on" /\ settings_lock = t
    /\ lock = AnimThread

(***************************************************************************)
(* C19: IdleAnimation.stop stops the animation: once stop() has returned   *)
(* after start() was called, the animation thread has terminated, for      *)
(* every interleaving of the caller with the animation thread.             *)
(***************************************************************************)
StopTerminatesAnimation ==
    (pc[MainThread] \in {"finally_pixels", "exited"} /\ pc[AnimThread] # "unstarted")
        => pc[AnimThread] = "done"

(***************************************************************************)
(* C20: in the image viewer each handled .jpg event restarts the display   *)
(* timeout, for every interleaving of handle_event (observer thread) with  *)
(* display_off (Tk thread): at most one display-off task is pending,       *)
(* display_off_task refers to it whenever one is pending, and the display  *)
(* is not powered off earlier than PHOTO_DISPLAY_TIMEOUT after the most    *)
(* recently handled photo.                                                 *)
(***************************************************************************)
DisplayTimeoutRestarted ==
    /\ Cardinality(Pending) <= 1
    /\ \A k \in Pending : display_off_task = k
    /\ offDelay = NoTime \/ offDelay >= DisplayTimeout

====
